---- MODULE Spec2Model ----
(***************************************************************************)
(* Shape-level model of the VAN backbone of models/swat_van3.py.           *)
(*                                                                         *)
(* A tensor is represented by its shape, a sequence of naturals.  Every    *)
(* layer is an operator from shapes to shapes that yields Bad when the     *)
(* tensor runtime would raise.  A forward pass is a state machine whose    *)
(* program counter walks the loop of VAN.forward_features.                 *)
(***************************************************************************)
EXTENDS Integers, Sequences, FiniteSets, TLC

VARIABLES
    \* ---- the constructed VAN object (VAN.__init__) ----
    args,          \* constructor arguments, [preset, embed_dims, mlp_ratios, depths, img_size, num_classes, rate]
    attrs,         \* names of the attributes assigned on the object
    num_classes,   \* self.num_classes
    head,          \* self.head: [kind |-> "Linear", fin, fout] or [kind |-> "Identity"]
    patch_embed,   \* patch_embed1..4: <<[layer, img_size, embed_dim, H, W], ...>>
    block,         \* block1..4: per stage a sequence of [dim, layer, hidden, drop_path, p]
    norm,          \* norm1..4: LayerNorm widths
    training,      \* nn.Module.training
    reset_err,     \* outcome of the last reset_classifier call
    \* ---- one forward call ----
    pc,            \* "new", "idle", "patch_embed", "block", "flatten", "norm", "reshape", "mean", "head", "done", "error"
    inp,           \* shape of the input tensor of the call
    i,             \* stage index of forward_features
    j,             \* index of the next block of stage i
    x,             \* shape of x
    HW,            \* <<H, W>> returned by the last patch embedding
    err,           \* [stage, unit, site] of the raised error
    ops,           \* operations started so far, in order
    convIn,        \* tensors that entered a retiled convolution, in order
    stageOut,      \* shape of x after the blocks of each finished stage
    \* ---- stand-alone components and tensors ----
    unit,          \* a component constructed on its own, with its input
    out,           \* what the component's forward produced
    tens           \* a tensor with data, for the rearrange patterns

vars == <<args, attrs, num_classes, head, patch_embed, block, norm, training, reset_err,
          pc, inp, i, j, x, HW, err, ops, convIn, stageOut, unit, out, tens>>

-----------------------------------------------------------------------------
(* Bounds of the model.                                                    *)

MaxImg == 40          \* image sizes 1..MaxImg are constructed, plus the default 224
MaxBatch == 2         \* batch sizes 1..MaxBatch
MaxSmall == 3         \* input sides 1..MaxSmall are tried
MaxDelta == 2         \* input sides img_size-MaxDelta..img_size+MaxDelta are tried
MaxDepth == 3         \* depths 1..MaxDepth per stage in the constructor specification
MaxRate == 2          \* drop_path_rate = 0/RateDen .. MaxRate/RateDen
MaxUnitC == 20        \* channel counts 1..MaxUnitC of stand-alone components
MaxUnitN == 4         \* spatial sides 1..MaxUnitN of stand-alone components
MaxTc == 2            \* channel groups 1..MaxTc of a tensor with data
MaxTn == 2            \* spatial sides 1..MaxTn of a tensor with data

-----------------------------------------------------------------------------
(* The tensor runtime: shapes and the layer primitives.                    *)

Bad == <<>>

\* Output side of a convolution; -1 when the padded input is smaller than the kernel.
ConvOut(n, k, s, p, d) ==
    IF n + 2 * p < d * (k - 1) + 1 THEN -1
    ELSE ((n + 2 * p - d * (k - 1) - 1) \div s) + 1

\* nn.Conv2d(cin, cout, k, stride=s, padding=p, dilation=d) applied to t.
Conv2d(t, cin, cout, k, s, p, d) ==
    IF t = Bad \/ Len(t) # 4 THEN Bad
    ELSE IF t[2] # cin THEN Bad
    ELSE IF ConvOut(t[3], k, s, p, d) < 0 \/ ConvOut(t[4], k, s, p, d) < 0 THEN Bad
    ELSE <<t[1], cout, ConvOut(t[3], k, s, p, d), ConvOut(t[4], k, s, p, d)>>

\* Faulty variant: sizes that differ are stretched to the larger one instead
\* of being rejected.
BroadcastDimStretch(a, b) == IF a >= b THEN a ELSE b

\* Broadcasting of one dimension; -1 when the sizes are incompatible.
BroadcastDim(a, b) ==
    IF a = b THEN a ELSE IF a = 1 THEN b ELSE IF b = 1 THEN a ELSE -1

\* Elementwise a + b or a * b of two 4-d tensors.
Broadcast(a, b) ==
    IF a = Bad \/ b = Bad THEN Bad
    ELSE IF \E k \in 1..4 : BroadcastDim(a[k], b[k]) < 0 THEN Bad
    ELSE [k \in 1..4 |-> BroadcastDim(a[k], b[k])]

\* tensor.repeat(r1, r2, r3, r4)
Repeat(t, r) == [k \in 1..4 |-> t[k] * r[k]]

\* Faulty variant: a channel count that does not split is cut down to the
\* largest one that does.
ToSpaceTruncating(t, p1, p2) ==
    IF t = Bad \/ Len(t) # 4 THEN Bad
    ELSE <<t[1], t[2] \div (p1 * p2), t[3] * p1, t[4] * p2>>

\* rearrange(t, 'b (c p1 p2) n1 n2 -> b c (n1 p1) (n2 p2)', p1=p1, p2=p2):
\* the channel count must split into p1 * p2 groups; c is what remains.
ToSpace(t, p1, p2) ==
    IF t = Bad \/ Len(t) # 4 THEN Bad
    ELSE IF t[2] % (p1 * p2) # 0 THEN Bad
    ELSE <<t[1], t[2] \div (p1 * p2), t[3] * p1, t[4] * p2>>

\* rearrange(t, 'b c (n1 p1) (n2 p2) -> b (c p1 p2) n1 n2', p1=p1, p2=p2)
ToChannels(t, p1, p2) ==
    IF t = Bad \/ Len(t) # 4 THEN Bad
    ELSE IF t[3] % p1 # 0 \/ t[4] % p2 # 0 THEN Bad
    ELSE <<t[1], t[2] * p1 * p2, t[3] \div p1, t[4] \div p2>>

\* The elements of a tensor are kept in row-major order, numbered from 1.
\* Offset (from 0) of the element (b, c, row, col) of a tensor of shape t.
Offset(t, b, c, row, col) == ((b * t[2] + c) * t[3] + row) * t[4] + col

\* The index along dimension k (1..4) of the element at offset o of shape t.
Index(t, o, k) ==
    CASE k = 4 -> o % t[4]
      [] k = 3 -> (o \div t[4]) % t[3]
      [] k = 2 -> (o \div (t[4] * t[3])) % t[2]
      [] k = 1 -> o \div (t[4] * t[3] * t[2])

\* rearrange 'b (c p1 p2) n1 n2 -> b c (n1 p1) (n2 p2)' on the elements: the
\* output element (b, c, n1*p1 + i1, n2*p2 + i2) is the input element
\* (b, (c*p1 + i1)*p2 + i2, n1, n2).
ToSpaceData(t, data, p1, p2) ==
    LET u == ToSpace(t, p1, p2)
    IN  [o \in 1..Len(data) |->
            data[1 + Offset(t, Index(u, o - 1, 1),
                            (Index(u, o - 1, 2) * p1 + (Index(u, o - 1, 3) % p1)) * p2
                                + (Index(u, o - 1, 4) % p2),
                            Index(u, o - 1, 3) \div p1,
                            Index(u, o - 1, 4) \div p2)]]

\* Faulty variant: the pattern reads 'b (c p2 p1) n1 n2'.
ToChannelsDataSwapped(t, data, p1, p2) ==
    LET u == ToChannels(t, p1, p2)
    IN  [o \in 1..Len(data) |->
            data[1 + Offset(t, Index(u, o - 1, 1),
                            Index(u, o - 1, 2) \div (p1 * p2),
                            Index(u, o - 1, 3) * p1 + (Index(u, o - 1, 2) % p1),
                            Index(u, o - 1, 4) * p2 + ((Index(u, o - 1, 2) \div p1) % p2))]]

\* rearrange 'b c (n1 p1) (n2 p2) -> b (c p1 p2) n1 n2' on the elements: the
\* output element (b, (c*p1 + i1)*p2 + i2, n1, n2) is the input element
\* (b, c, n1*p1 + i1, n2*p2 + i2).
ToChannelsData(t, data, p1, p2) ==
    LET u == ToChannels(t, p1, p2)
    IN  [o \in 1..Len(data) |->
            data[1 + Offset(t, Index(u, o - 1, 1),
                            Index(u, o - 1, 2) \div (p1 * p2),
                            Index(u, o - 1, 3) * p1 + ((Index(u, o - 1, 2) \div p2) % p1),
                            Index(u, o - 1, 4) * p2 + (Index(u, o - 1, 2) % p2))]]

\* nn.BatchNorm2d(nf): in training mode a single value per channel is rejected.
BatchNorm2d(t, nf, train) ==
    IF t = Bad \/ Len(t) # 4 THEN Bad
    ELSE IF t[2] # nf THEN Bad
    ELSE IF train /\ t[1] * t[3] * t[4] = 1 THEN Bad
    ELSE t

\* nn.LayerNorm(nf) and nn.Linear(fin, fout) act on the last dimension.
LayerNorm(t, nf) ==
    IF t = Bad \/ Len(t) = 0 THEN Bad
    ELSE IF t[Len(t)] # nf THEN Bad ELSE t

Linear(t, fin, fout) ==
    IF t = Bad \/ Len(t) = 0 THEN Bad
    ELSE IF t[Len(t)] # fin THEN Bad
    ELSE [k \in 1..Len(t) |-> IF k = Len(t) THEN fout ELSE t[k]]

-----------------------------------------------------------------------------
(* A run of layers: the tensor so far, or the site that raised.            *)

\* shape: the current tensor.  site: the path of the layer that raised.
\* saved: the tensors kept for later use (x of a residual add, shorcut, u),
\* innermost first.  conv: the tensor that entered the retiled convolution.
\* trail: the tensors produced so far, in order.
Start(t) ==
    [ok |-> TRUE, shape |-> t, site |-> <<>>, saved |-> <<>>, conv |-> Bad, trail |-> <<>>]

\* The run continues with tensor t, or stops at the layer called name.
Then(r, name, t) ==
    IF ~r.ok THEN r
    ELSE IF t = Bad THEN [r EXCEPT !.ok = FALSE, !.site = name, !.shape = Bad]
    ELSE [r EXCEPT !.shape = t, !.trail = Append(@, t)]

\* Keep the current tensor (x.clone(), or the x of x + f(x)).
Keep(r) == IF r.ok THEN [r EXCEPT !.saved = <<r.shape>> \o r.saved] ELSE r

\* Combine the current tensor elementwise with the tensor kept last.
ThenWithKept(r, name) ==
    IF ~r.ok THEN r
    ELSE IF Broadcast(Head(r.saved), r.shape) = Bad
         THEN [r EXCEPT !.ok = FALSE, !.site = name, !.shape = Bad]
         ELSE [r EXCEPT !.shape = Broadcast(Head(r.saved), r.shape), !.saved = Tail(r.saved),
                        !.trail = Append(@, Broadcast(Head(r.saved), r.shape))]

\* Remember the tensor that is about to enter the retiled convolution.
Tap(r) == IF r.ok THEN [r EXCEPT !.conv = r.shape] ELSE r

ThenConv2d(r, name, cin, cout, k, s, p, d) == Then(r, name, Conv2d(r.shape, cin, cout, k, s, p, d))

ThenBatchNorm2d(r, name, nf, train) == Then(r, name, BatchNorm2d(r.shape, nf, train))

ThenToSpace(r, name, p1, p2) == Then(r, name, ToSpace(r.shape, p1, p2))

ThenToChannels(r, name, p1, p2) == Then(r, name, ToChannels(r.shape, p1, p2))

\* Elementwise combination with a parameter tensor t (a bias, a scale).
ThenBroadcast(r, name, t) == Then(r, name, Broadcast(r.shape, t))

-----------------------------------------------------------------------------
(* The fixed per-stage lookup tables.                                      *)

Layers == 0..3

\* DWConv.__init__: {0:5, 1:5, 2:5, 3:3}[layer]
DWConvKs(layer) == CASE layer = 0 -> 5 [] layer = 1 -> 5 [] layer = 2 -> 5 [] layer = 3 -> 3

\* Faulty variant: the last entry splits 512 channels as (8,8,8).
AttentionTableWrongSplit(layer) ==
    CASE layer = 0 -> [c |-> 16, h |-> 2, w |-> 2, ks |-> 1]
      [] layer = 1 -> [c |-> 8, h |-> 4, w |-> 4, ks |-> 3]
      [] layer = 2 -> [c |-> 5, h |-> 8, w |-> 8, ks |-> 5]
      [] layer = 3 -> [c |-> 8, h |-> 8, w |-> 8, ks |-> 7]

\* Attention.__init__: {0:(16,2,2,1), 1:(8,4,4,3), 2:(5,8,8,5), 3:(2,16,16,7)}[layer]
AttentionTable(layer) ==
    CASE layer = 0 -> [c |-> 16, h |-> 2, w |-> 2, ks |-> 1]
      [] layer = 1 -> [c |-> 8, h |-> 4, w |-> 4, ks |-> 3]
      [] layer = 2 -> [c |-> 5, h |-> 8, w |-> 8, ks |-> 5]
      [] layer = 3 -> [c |-> 2, h |-> 16, w |-> 16, ks |-> 7]

\* OverlapPatchEmbed.__init__: {1:(16,8,2,2,5), 2:(8,5,4,4,7), 3:(5,2,8,8,9)}[layer]
PatchEmbedTable(layer) ==
    CASE layer = 1 -> [c |-> 16, cout |-> 8, h |-> 2, w |-> 2, ks |-> 5]
      [] layer = 2 -> [c |-> 8, cout |-> 5, h |-> 4, w |-> 4, ks |-> 7]
      [] layer = 3 -> [c |-> 5, cout |-> 2, h |-> 8, w |-> 8, ks |-> 9]

-----------------------------------------------------------------------------
(* Mlp                                                                     *)

\* DWConv.forward: a depthwise convolution of same-size output.
DWConv(r, name, dim, layer) ==
    ThenConv2d(r, name, dim, dim, DWConvKs(layer), 1, DWConvKs(layer) \div 2, 1)

\* Mlp.forward with in_features = out_features = dim; at is the path of the Mlp.
Mlp(r, at, dim, hidden, layer, train) ==
    LET fc1 == ThenConv2d(r, at \o <<"fc1">>, dim, hidden, 1, 1, 0, 1)
        n1  == IF layer > 1
               THEN ThenBatchNorm2d(fc1, at \o <<"norm1">>, hidden, train)
               ELSE fc1
        dw  == DWConv(n1, at \o <<"dwconv">>, hidden, layer)
        n2  == ThenBatchNorm2d(dw, at \o <<"norm2">>, hidden, train)
    IN  ThenConv2d(n2, at \o <<"fc2">>, hidden, dim, 1, 1, 0, 1)

-----------------------------------------------------------------------------
(* LKA and Attention                                                       *)

\* LKA.forward: u * conv1(conv_spatial(conv0(x)))
LKA(r, at, dim) ==
    LET c0 == ThenConv2d(Keep(r), at \o <<"conv0">>, dim, dim, 5, 1, 2, 1)
        cs == ThenConv2d(c0, at \o <<"conv_spatial">>, dim, dim, 7, 1, 9, 3)
        c1 == ThenConv2d(cs, at \o <<"conv1">>, dim, dim, 1, 1, 0, 1)
    IN  ThenWithKept(c1, at \o <<"mul">>)

\* Attention.__init__(d_model, layer)
NewAttention(d_model, layer) ==
    [d_model |-> d_model, layer |-> layer,
     c |-> AttentionTable(layer).c, h |-> AttentionTable(layer).h,
     w |-> AttentionTable(layer).w, ks |-> AttentionTable(layer).ks]

\* x = 0.5 * (self.proj_1(x) + x_): the current tensor is x_, the kept one is x.
ThenAverage(r, at, d_model) ==
    IF ~r.ok THEN r
    ELSE IF Conv2d(Head(r.saved), d_model, d_model, 1, 1, 0, 1) = Bad
         THEN [r EXCEPT !.ok = FALSE, !.site = at \o <<"proj_1">>, !.shape = Bad]
         ELSE Then(r, at \o <<"add">>,
                   Broadcast(Conv2d(Head(r.saved), d_model, d_model, 1, 1, 0, 1), r.shape))

\* Attention.forward: c is not in the pattern of the first rearrange, einops
\* infers it from the channel count.
AttentionForward(a, r, at) ==
    LET sp  == Tap(ThenToSpace(Keep(r), at \o <<"rearrange">>, a.h, a.w))
        cv  == ThenConv2d(sp, at \o <<"proj_1c">>, a.c, a.c, a.ks, 1, a.ks \div 2, 1)
        x_  == ThenToChannels(cv, at \o <<"rearrange_back">>, a.h, a.w)
        avg == ThenAverage(x_, at, a.d_model)
        sgu == LKA(avg, at \o <<"spatial_gating_unit">>, a.d_model)
        p2  == ThenConv2d(sgu, at \o <<"proj_2">>, a.d_model, a.d_model, 1, 1, 0, 1)
    IN  ThenWithKept(p2, at \o <<"shortcut">>)

-----------------------------------------------------------------------------
(* Block                                                                   *)

\* Block.__init__(dim, mlp_ratio, drop_path, layer); p is the drop-path
\* probability as the numerator of a fraction (see Linspace).
NewBlock(dim, mlp_ratio, p, layer) ==
    [dim |-> dim, layer |-> layer, hidden |-> dim * mlp_ratio,
     attn |-> NewAttention(dim, layer),
     drop_path |-> IF p > 0 THEN "DropPath" ELSE "Identity", p |-> p]

\* Block.forward
BlockForward(b, r, train) ==
    LET n1  == ThenBatchNorm2d(Keep(r), <<"norm1">>, b.dim, train)
        at  == AttentionForward(b.attn, n1, <<"attn">>)
        s1  == ThenBroadcast(at, <<"layer_scale_1">>, <<1, b.dim, 1, 1>>)
        r1  == ThenWithKept(s1, <<"add1">>)
        n2  == ThenBatchNorm2d(Keep(r1), <<"norm2">>, b.dim, train)
        ml  == Mlp(n2, <<"mlp">>, b.dim, b.hidden, b.layer, train)
        s2  == ThenBroadcast(ml, <<"layer_scale_2">>, <<1, b.dim, 1, 1>>)
    IN  ThenWithKept(s2, <<"add2">>)

-----------------------------------------------------------------------------
(* OverlapPatchEmbed                                                       *)

\* OverlapPatchEmbed.__init__
NewPatchEmbed(img_size, patch_size, stride, in_chans_, embed_dim, layer) ==
    IF layer = 0
    THEN [layer |-> 0, img_size |-> img_size, patch_size |-> patch_size, stride |-> stride,
          in_chans |-> in_chans_, embed_dim |-> embed_dim,
          c |-> 16, cout |-> embed_dim \div 4, h |-> 2, w |-> 2, ks |-> 3,
          H |-> img_size \div (2 * stride), W |-> img_size \div (2 * stride),
          pos_embed |-> <<1, embed_dim, 2, 2>>]
    ELSE [layer |-> layer, img_size |-> img_size, patch_size |-> patch_size, stride |-> stride,
          in_chans |-> in_chans_, embed_dim |-> embed_dim,
          c |-> PatchEmbedTable(layer).c, cout |-> PatchEmbedTable(layer).cout,
          h |-> PatchEmbedTable(layer).h, w |-> PatchEmbedTable(layer).w,
          ks |-> PatchEmbedTable(layer).ks,
          H |-> img_size \div stride, W |-> img_size \div stride,
          pos_embed |-> <<1, PatchEmbedTable(layer).cout,
                          PatchEmbedTable(layer).h * 2, PatchEmbedTable(layer).w * 2>>]

\* Faulty variant: the exit rearrange reuses the entry factors.
PatchEmbedOutFactorsSame(pe) == <<pe.h, pe.w>>

\* The factors of the rearrange that ends the forward of stages 1-3.
PatchEmbedOutFactors(pe) == <<pe.h * 2, pe.w * 2>>

\* OverlapPatchEmbed.forward; the shape of the returned x gives H and W.
PatchEmbedForward(pe, r, train) ==
    IF pe.layer = 0
    THEN LET p1 == ThenConv2d(r, <<"proj1">>, pe.in_chans, pe.embed_dim, pe.patch_size,
                              pe.stride, pe.patch_size \div 2, 1)
             ad == ThenBroadcast(p1, <<"pos_embed">>, Repeat(pe.pos_embed, <<1, 1, pe.H, pe.W>>))
             n1 == ThenBatchNorm2d(ad, <<"norm1">>, pe.embed_dim, train)
             p2 == ThenConv2d(n1, <<"proj2">>, pe.embed_dim, pe.embed_dim \div 4, 3, 1, 1, 1)
             n2 == ThenBatchNorm2d(p2, <<"norm2">>, pe.embed_dim \div 4, train)
         IN  ThenToChannels(n2, <<"rearrange_out">>, pe.h, pe.w)
    ELSE LET sp == Tap(ThenToSpace(r, <<"rearrange">>, pe.h, pe.w))
             p2 == ThenConv2d(sp, <<"proj2">>, pe.c, pe.cout, pe.ks, 1, pe.ks \div 2, 1)
             ad == ThenBroadcast(p2, <<"pos_embed">>, Repeat(pe.pos_embed, <<1, 1, pe.H, pe.W>>))
             n2 == ThenBatchNorm2d(ad, <<"norm2">>, pe.cout, train)
         IN  ThenToChannels(n2, <<"rearrange_out">>,
                            PatchEmbedOutFactors(pe)[1], PatchEmbedOutFactors(pe)[2])

-----------------------------------------------------------------------------
(* VAN.__init__                                                            *)

RECURSIVE Sum(_)
Sum(s) == IF s = <<>> THEN 0 ELSE Head(s) + Sum(Tail(s))

\* torch.linspace(0, end, steps) in exact arithmetic.  Entry k (from 1) is the
\* numerator of a fraction whose denominator is steps - 1: the first half is
\* computed upwards from the start, the second half downwards from the end.
Linspace(end, steps) ==
    [k \in 1..steps |->
        IF steps = 1 THEN 0
        ELSE IF k - 1 < steps \div 2 THEN (k - 1) * end
        ELSE end * (steps - 1) - (steps - k) * end]

\* The presets: van_tiny, van_small, van_base, van_large.
Presets ==
    [van_tiny  |-> [embed_dims |-> <<32, 64, 160, 256>>, mlp_ratios |-> <<8, 8, 4, 4>>,
                    depths |-> <<3, 3, 5, 2>>],
     van_small |-> [embed_dims |-> <<64, 128, 320, 512>>, mlp_ratios |-> <<8, 8, 4, 4>>,
                    depths |-> <<2, 2, 4, 2>>],
     van_base  |-> [embed_dims |-> <<64, 128, 320, 512>>, mlp_ratios |-> <<8, 8, 4, 4>>,
                    depths |-> <<3, 3, 12, 3>>],
     van_large |-> [embed_dims |-> <<64, 128, 320, 512>>, mlp_ratios |-> <<8, 8, 4, 4>>,
                    depths |-> <<3, 5, 27, 3>>]]

num_stages == 4
in_chans == 3

RECURSIVE Pow2(_)
Pow2(n) == IF n = 0 THEN 1 ELSE 2 * Pow2(n - 1)

\* The offset cur of stage s (from 0): the blocks of the stages before it.
Cur(depths, s) == Sum(SubSeq(depths, 1, s))

\* Faulty variant: the running offset cur is forgotten.
DprEntryNoOffset(a, s, b) == Linspace(a.drop_path_rate, Sum(a.depths))[b + 1]

\* The drop-path entry handed to block b (from 0) of stage s (from 0): dpr[cur + j].
DprEntry(a, s, b) == Linspace(a.drop_path_rate, Sum(a.depths))[Cur(a.depths, s) + b + 1]

\* Faulty variant: the later stages are sized img_size // 2 ** i.
StageImgSizeOneLess(a, s) == IF s = 0 THEN a.img_size ELSE a.img_size \div Pow2(s)

\* img_size if i == 0 else img_size // (2 ** (i + 1))
StageImgSize(a, s) == IF s = 0 THEN a.img_size ELSE a.img_size \div Pow2(s + 1)

\* The stage loop of VAN.__init__: patch_embed{s+1}, block{s+1}, norm{s+1}.
StagePatchEmbed(a, s) ==
    NewPatchEmbed(StageImgSize(a, s),
                  IF s = 0 THEN 5 ELSE 3, 2,
                  IF s = 0 THEN in_chans ELSE a.embed_dims[s],
                  a.embed_dims[s + 1], s)

StageBlocks(a, s) ==
    [b \in 1..a.depths[s + 1] |->
        NewBlock(a.embed_dims[s + 1], a.mlp_ratios[s + 1], DprEntry(a, s, b - 1), s)]

\* self.head = nn.Linear(embed_dims[3], num_classes) if num_classes > 0 else nn.Identity()
NewHead(fin, n) ==
    IF n > 0 THEN [kind |-> "Linear", fin |-> fin, fout |-> n]
    ELSE [kind |-> "Identity", fin |-> 0, fout |-> 0]

\* The attributes VAN.__init__ assigns.
InitAttrs ==
    {"num_classes", "depths", "num_stages", "head",
     "patch_embed1", "patch_embed2", "patch_embed3", "patch_embed4",
     "block1", "block2", "block3", "block4", "norm1", "norm2", "norm3", "norm4"}

NoCall ==
    /\ inp = Bad /\ i = 0 /\ j = 0 /\ x = Bad /\ HW = <<0, 0>>
    /\ err = <<>> /\ ops = <<>> /\ convIn = <<>> /\ stageOut = <<>>

NoModel ==
    /\ attrs = {} /\ num_classes = 0 /\ head = NewHead(0, 0)
    /\ patch_embed = <<>> /\ block = <<>> /\ norm = <<>>
    /\ training = TRUE /\ reset_err = "none"

NoUnit == unit = <<>> /\ out = <<>>

NoTens == tens = <<>>

VAN_init ==
    /\ pc = "new"
    /\ attrs' = InitAttrs
    /\ num_classes' = args.num_classes
    /\ patch_embed' = [s \in 1..num_stages |-> StagePatchEmbed(args, s - 1)]
    /\ block' = [s \in 1..num_stages |-> StageBlocks(args, s - 1)]
    /\ norm' = [s \in 1..num_stages |-> args.embed_dims[s]]
    /\ head' = NewHead(args.embed_dims[4], args.num_classes)
    /\ training' = TRUE
    /\ pc' = "idle"
    /\ UNCHANGED <<args, reset_err, inp, i, j, x, HW, err, ops, convIn, stageOut, unit, out, tens>>

-----------------------------------------------------------------------------
(* Methods of a constructed VAN.                                           *)

\* nn.Module.train(mode) / eval()
train(mode) ==
    /\ pc = "idle"
    /\ training # mode
    /\ training' = mode
    /\ UNCHANGED <<args, attrs, num_classes, head, patch_embed, block, norm, reset_err,
                   pc, inp, i, j, x, HW, err, ops, convIn, stageOut, unit, out, tens>>

\* reset_classifier: num_classes is assigned first; the new head reads
\* self.embed_dim, and reading an attribute that was never assigned raises.
reset_classifier(n) ==
    /\ pc = "idle"
    /\ num_classes' = n
    /\ IF n > 0 /\ "embed_dim" \notin attrs
       THEN /\ reset_err' = "AttributeError"
            /\ head' = head
       ELSE /\ reset_err' = "none"
            /\ head' = NewHead(args.embed_dims[4], n)
    /\ UNCHANGED <<args, attrs, patch_embed, block, norm, training,
                   pc, inp, i, j, x, HW, err, ops, convIn, stageOut, unit, out, tens>>

-----------------------------------------------------------------------------
(* VAN.forward: one step per operation of forward_features and forward.    *)

\* Input sides tried against a model constructed for side S.
InSizes(S) == {n \in 1..(S + MaxDelta) : n <= MaxSmall \/ n >= S - MaxDelta}

\* x.reshape(B, H, W, -1): the last dimension is inferred from the element count.
Reshape(t, B, H, W) ==
    IF B * H * W = 0 THEN Bad
    ELSE IF (t[1] * t[2] * t[3]) % (B * H * W) # 0 THEN Bad
    ELSE <<B, H, W, (t[1] * t[2] * t[3]) \div (B * H * W)>>

\* Faulty variant: the reshape also follows the last stage.
ReshapeAfterAlways(s) == TRUE

\* if i != self.num_stages - 1: the reshape follows every stage but the last.
ReshapeAfter(s) == s # num_stages - 1

Raise(stage, name, site) ==
    /\ pc' = "error"
    /\ err' = <<stage, name>> \o site
    /\ x' = Bad

forward(B, h, w) ==
    /\ pc = "idle"
    /\ inp' = <<B, in_chans, h, w>>
    /\ x' = <<B, in_chans, h, w>>
    /\ i' = 0 /\ j' = 0
    /\ pc' = "patch_embed"
    /\ UNCHANGED <<args, attrs, num_classes, head, patch_embed, block, norm, training, reset_err,
                   HW, err, ops, convIn, stageOut, unit, out, tens>>

\* x, H, W = patch_embed(x)
PatchEmbedStep ==
    /\ pc = "patch_embed"
    /\ LET r == PatchEmbedForward(patch_embed[i + 1], Start(x), training)
       IN  /\ ops' = Append(ops, <<"patch_embed", i>>)
           /\ convIn' = IF r.conv # Bad
                        THEN Append(convIn, [unit |-> "patch_embed", stage |-> i, shape |-> r.conv])
                        ELSE convIn
           /\ IF r.ok
              THEN /\ x' = r.shape
                   /\ HW' = <<r.shape[3], r.shape[4]>>
                   /\ j' = 0
                   /\ pc' = IF Len(block[i + 1]) > 0 THEN "block" ELSE "flatten"
                   /\ stageOut' = IF Len(block[i + 1]) > 0 THEN stageOut
                                  ELSE Append(stageOut, r.shape)
                   /\ UNCHANGED err
              ELSE /\ Raise(i, "patch_embed", r.site)
                   /\ UNCHANGED <<HW, j, stageOut>>
    /\ UNCHANGED <<args, attrs, num_classes, head, patch_embed, block, norm, training, reset_err,
                   inp, i, unit, out, tens>>

\* for blk in block: x = blk(x)
BlockStep ==
    /\ pc = "block"
    /\ LET r == BlockForward(block[i + 1][j + 1], Start(x), training)
       IN  /\ ops' = Append(ops, <<"block", i, j>>)
           /\ convIn' = IF r.conv # Bad
                        THEN Append(convIn, [unit |-> "attn", stage |-> i, shape |-> r.conv])
                        ELSE convIn
           /\ IF r.ok
              THEN /\ x' = r.shape
                   /\ j' = j + 1
                   /\ pc' = IF j + 1 < Len(block[i + 1]) THEN "block" ELSE "flatten"
                   /\ stageOut' = IF j + 1 < Len(block[i + 1]) THEN stageOut
                                  ELSE Append(stageOut, r.shape)
                   /\ UNCHANGED err
              ELSE /\ Raise(i, "block", r.site)
                   /\ UNCHANGED <<j, stageOut>>
    /\ UNCHANGED <<args, attrs, num_classes, head, patch_embed, block, norm, training, reset_err,
                   inp, i, HW, unit, out, tens>>

\* x = x.flatten(2).transpose(1, 2)
FlattenStep ==
    /\ pc = "flatten"
    /\ ops' = Append(ops, <<"flatten", i>>)
    /\ x' = <<x[1], x[3] * x[4], x[2]>>
    /\ pc' = "norm"
    /\ UNCHANGED <<args, attrs, num_classes, head, patch_embed, block, norm, training, reset_err,
                   inp, i, j, HW, err, convIn, stageOut, unit, out, tens>>

\* x = norm(x), then the test of the stage index
NormStep ==
    /\ pc = "norm"
    /\ ops' = Append(ops, <<"norm", i>>)
    /\ IF LayerNorm(x, norm[i + 1]) # Bad
       THEN /\ x' = LayerNorm(x, norm[i + 1])
            /\ pc' = IF ReshapeAfter(i) THEN "reshape"
                     ELSE IF i + 1 < num_stages THEN "patch_embed" ELSE "mean"
            /\ i' = IF ReshapeAfter(i) \/ i + 1 >= num_stages THEN i ELSE i + 1
            /\ UNCHANGED err
       ELSE /\ Raise(i, "norm", <<>>)
            /\ UNCHANGED i
    /\ UNCHANGED <<args, attrs, num_classes, head, patch_embed, block, norm, training, reset_err,
                   inp, j, HW, convIn, stageOut, unit, out, tens>>

\* x = x.reshape(B, H, W, -1).permute(0, 3, 1, 2).contiguous()
ReshapeStep ==
    /\ pc = "reshape"
    /\ ops' = Append(ops, <<"reshape", i>>)
    /\ LET t == Reshape(x, inp[1], HW[1], HW[2])
       IN  IF t # Bad
           THEN /\ x' = <<t[1], t[4], t[2], t[3]>>
                /\ pc' = IF i + 1 < num_stages THEN "patch_embed" ELSE "mean"
                /\ i' = IF i + 1 < num_stages THEN i + 1 ELSE i
                /\ UNCHANGED err
           ELSE /\ Raise(i, "reshape", <<>>)
                /\ UNCHANGED i
    /\ UNCHANGED <<args, attrs, num_classes, head, patch_embed, block, norm, training, reset_err,
                   inp, j, HW, convIn, stageOut, unit, out, tens>>

\* return x.mean(dim=1)
MeanStep ==
    /\ pc = "mean"
    /\ ops' = Append(ops, <<"mean">>)
    /\ x' = [k \in 1..(Len(x) - 1) |-> IF k = 1 THEN x[1] ELSE x[k + 1]]
    /\ pc' = "head"
    /\ UNCHANGED <<args, attrs, num_classes, head, patch_embed, block, norm, training, reset_err,
                   inp, i, j, HW, err, convIn, stageOut, unit, out, tens>>

\* x = self.head(x)
HeadStep ==
    /\ pc = "head"
    /\ ops' = Append(ops, <<"head">>)
    /\ LET t == IF head.kind = "Linear" THEN Linear(x, head.fin, head.fout) ELSE x
       IN  IF t # Bad
           THEN x' = t /\ pc' = "done" /\ UNCHANGED err
           ELSE Raise(i, "head", <<>>)
    /\ UNCHANGED <<args, attrs, num_classes, head, patch_embed, block, norm, training, reset_err,
                   inp, i, j, HW, convIn, stageOut, unit, out, tens>>

\* The call returns (or its exception reaches the caller); the model is idle again.
Return ==
    /\ pc \in {"done", "error"}
    /\ pc' = "idle"
    /\ inp' = Bad /\ i' = 0 /\ j' = 0 /\ x' = Bad /\ HW' = <<0, 0>>
    /\ err' = <<>> /\ ops' = <<>> /\ convIn' = <<>> /\ stageOut' = <<>>
    /\ UNCHANGED <<args, attrs, num_classes, head, patch_embed, block, norm, training, reset_err,
                   unit, out, tens>>

-----------------------------------------------------------------------------
(* The specification of a model built from a preset.                       *)

ImgSizes == (1..MaxImg) \cup {224}

Classes == {0, 1000}

ResetClasses == {0, 10}

Init ==
    /\ \E name \in DOMAIN Presets, S \in ImgSizes, K \in Classes :
          args = [preset |-> name, embed_dims |-> Presets[name].embed_dims,
                  mlp_ratios |-> Presets[name].mlp_ratios, depths |-> Presets[name].depths,
                  img_size |-> S, num_classes |-> K, drop_path_rate |-> 0]
    /\ pc = "new"
    /\ NoModel /\ NoCall /\ NoUnit /\ NoTens

\* The caller switches modes and runs forward calls.
Next ==
    \/ VAN_init
    \/ \E mode \in BOOLEAN : train(mode)
    \/ \E B \in 1..MaxBatch, h \in InSizes(args.img_size) :
          \E w \in {h, args.img_size} : forward(B, h, w)
    \/ PatchEmbedStep
    \/ BlockStep
    \/ FlattenStep
    \/ NormStep
    \/ ReshapeStep
    \/ MeanStep
    \/ HeadStep
    \/ Return

Spec == Init /\ [][Next]_vars

-----------------------------------------------------------------------------
(* The specification of a model of the default image size whose classifier *)
(* is reset between forward calls.                                         *)

InitReset == Init /\ args.img_size = 224

NextReset ==
    \/ VAN_init
    \/ \E n \in ResetClasses : reset_classifier(n)
    \/ \E B \in 1..MaxBatch, h \in InSizes(args.img_size) :
          \E w \in {h, args.img_size} : forward(B, h, w)
    \/ PatchEmbedStep
    \/ BlockStep
    \/ FlattenStep
    \/ NormStep
    \/ ReshapeStep
    \/ MeanStep
    \/ HeadStep
    \/ Return

SpecReset == InitReset /\ [][NextReset]_vars

-----------------------------------------------------------------------------
(* Properties of forward calls (specification Spec).                       *)

Terminated == pc \in {"done", "error"}

Widths64 == args.embed_dims = <<64, 128, 320, 512>>

SquareInput == inp # Bad /\ inp[3] = args.img_size /\ inp[4] = args.img_size

DefaultImg == args.img_size = 224

\* C1: every preset built with image_size 224 and num_classes K > 0 maps an
\* input (B, 3, 224, 224) to logits of shape (B, K), without a shape error.
C1_PresetsReturnLogits ==
    (Terminated /\ DefaultImg /\ SquareInput /\ args.num_classes > 0)
        => (pc = "done" /\ x = <<inp[1], args.num_classes>>)

\* What holds instead: the presets of widths [64,128,320,512] return (B, K);
\* van_tiny stops in the first block, whose retiled convolution expects 16
\* channels and receives 32 / (2*2) = 8.
C1_Widths64ReturnLogits ==
    (Terminated /\ DefaultImg /\ SquareInput /\ args.num_classes > 0)
        => IF Widths64
           THEN pc = "done" /\ x = <<inp[1], args.num_classes>>
           ELSE pc = "error" /\ err = <<0, "block", "attn", "proj_1c">>

\* C2 as stated: a call whose input height or width differs from image_size
\* never returns logits.
C2_OtherSizeNeverReturns ==
    pc = "done" => (inp[3] = args.img_size /\ inp[4] = args.img_size)

AcceptedSide(X) == (X + 1) \div 2 \in {2 * (args.img_size \div 4), 1}

\* C2 amended: a call returns logits only when, for each input side X, the
\* side ceil(X/2) of the stride-2 embedding output equals the side
\* 2*floor(image_size/4) of the tiled bias, or equals 1 (a 1x1 map, which
\* broadcasts against the bias); every other input side raises.
C2_OnlyMatchingSidesReturn ==
    pc = "done" => (AcceptedSide(inp[3]) /\ AcceptedSide(inp[4]))

C2_Witness ==
    /\ pc = "error" /\ Widths64 /\ DefaultImg
    /\ inp[3] = args.img_size - 2 /\ inp[4] = args.img_size
    /\ err = <<0, "patch_embed", "pos_embed">>

C2_ReturnsOnSmallerInput ==
    pc = "done" /\ inp[3] = args.img_size - 1 /\ inp[4] = args.img_size - 1

\* The operations the stage loop is expected to run, in order.
RECURSIVE BlockOps(_, _, _)
BlockOps(s, from, n) ==
    IF from >= n THEN <<>> ELSE <<<<"block", s, from>>>> \o BlockOps(s, from + 1, n)

StageOps(s, n, last) ==
    <<<<"patch_embed", s>>>> \o BlockOps(s, 0, n) \o <<<<"flatten", s>>, <<"norm", s>>>>
        \o (IF last THEN <<>> ELSE <<<<"reshape", s>>>>)

ExpectedOps(d) ==
    StageOps(0, d[1], FALSE) \o StageOps(1, d[2], FALSE) \o StageOps(2, d[3], FALSE)
        \o StageOps(3, d[4], TRUE) \o <<<<"mean">>, <<"head">>>>

IsPrefix(a, b) == Len(a) <= Len(b) /\ a = SubSeq(b, 1, Len(a))

\* C5: within one forward call the operations run in the order patch
\* embedding i, blocks of stage i in index order, flatten, norm i, reshape
\* (all stages but the last), for i = 0..3, then the mean and the head.
C5_OperationOrder ==
    /\ IsPrefix(ops, ExpectedOps(args.depths))
    /\ pc = "done" => ops = ExpectedOps(args.depths)

C5_Witness == pc = "done" /\ args.preset = "van_large" /\ Len(ops) = 55

PatchEmbedShapeSites == {<<"pos_embed">>, <<"rearrange">>, <<"rearrange_out">>}

\* C8 as stated: with widths [64,128,320,512] and an input of the
\* constructed size S the call completes iff S is a multiple of 32, and
\* otherwise a bias addition or rearrange of a patch embedding raises.
C8_CompletesIffMultipleOf32 ==
    (Terminated /\ Widths64 /\ SquareInput)
        => /\ pc = "done" <=> args.img_size % 32 = 0
           /\ pc = "error" => /\ err[2] = "patch_embed"
                              /\ SubSeq(err, 3, Len(err)) \in PatchEmbedShapeSites

SingleValue == training /\ inp[1] = 1 /\ args.img_size \in {4, 8, 16, 32}

\* C8 amended: in training mode a batch of one sample with a 1x1 map is
\* rejected by the BatchNorm of the first block that sees it (S = 4, 8, 16,
\* 32); otherwise the call completes iff S is a multiple of 32 and for every
\* other S a patch embedding raises: at the bias addition or a rearrange, or,
\* for S = 1 and S = 2, at the second convolution of stage 0, which receives
\* the empty map that the broadcast bias addition produced.
C8_CompletesIffMultipleOf32Amended ==
    (Terminated /\ Widths64 /\ SquareInput)
        => IF SingleValue
           THEN pc = "error" /\ SubSeq(err, 2, Len(err)) = <<"block", "norm1">>
           ELSE /\ pc = "done" <=> args.img_size % 32 = 0
                /\ pc = "error" =>
                      /\ err[2] = "patch_embed"
                      /\ IF args.img_size <= 2
                         THEN err = <<0, "patch_embed", "proj2">>
                         ELSE SubSeq(err, 3, Len(err)) \in PatchEmbedShapeSites

C8_Witness ==
    /\ pc = "error" /\ Widths64 /\ SquareInput /\ args.img_size = 24
    /\ err = <<2, "patch_embed", "pos_embed">>

\* The channel counts of the retiled convolutions, per stage.
AttnChannels == <<16, 8, 5, 2>>

EmbedChannels == <<3, 16, 8, 5>>

ExpectedConvIn(e) ==
    <<inp[1],
      IF e.unit = "attn" THEN AttnChannels[e.stage + 1] ELSE EmbedChannels[e.stage + 1],
      args.img_size \div 2, args.img_size \div 2>>

\* C9 as stated: in every completed call of a model of widths [64,128,320,512] each
\* retiled convolution (one per block, one per patch embedding of stages
\* 1-3) receives (B, c, S/2, S/2) with the c of its stage, and stage i
\* leaves (B, embed_dims[i], S/(4*2^i), S/(4*2^i)).
C9_RetiledConvolutionInputs ==
    (pc = "done" /\ Widths64)
        => /\ Len(convIn) = Sum(args.depths) + 3
           /\ \A k \in 1..Len(convIn) : convIn[k].shape = ExpectedConvIn(convIn[k])
           /\ Len(stageOut) = 4
           /\ \A s \in 0..3 :
                stageOut[s + 1] = <<inp[1], args.embed_dims[s + 1],
                                    args.img_size \div (4 * Pow2(s)),
                                    args.img_size \div (4 * Pow2(s))>>

\* C9 amended: the sides are 2*floor(S/4) and floor(S/4)/2^i, which are S/2
\* and S/(4*2^i) when S is a multiple of 4: a model built for S = 34
\* completes on a 32x32 input with 16x16 maps.
C9_RetiledConvolutionInputsAmended ==
    (pc = "done" /\ Widths64)
        => /\ Len(convIn) = Sum(args.depths) + 3
           /\ \A k \in 1..Len(convIn) :
                convIn[k].shape = <<inp[1], ExpectedConvIn(convIn[k])[2],
                                    2 * (args.img_size \div 4), 2 * (args.img_size \div 4)>>
           /\ Len(stageOut) = 4
           /\ \A s \in 0..3 :
                stageOut[s + 1] = <<inp[1], args.embed_dims[s + 1],
                                    (args.img_size \div 4) \div Pow2(s),
                                    (args.img_size \div 4) \div Pow2(s)>>

C9_Witness == pc = "done" /\ Widths64 /\ DefaultImg /\ Len(convIn) = 41

-----------------------------------------------------------------------------
(* Properties of reset_classifier (specification SpecReset).               *)

\* C10: reset_classifier(n) completes, sets num_classes and installs a head
\* from embed_dims[3] to n (the identity for n = 0), so that a later forward
\* call returns (B, n), or (B, embed_dims[3]) for n = 0.
C10_ResetInstallsHead ==
    /\ pc # "new" => /\ reset_err = "none"
                     /\ head = NewHead(args.embed_dims[4], num_classes)
    /\ pc = "done" => x = <<inp[1], IF num_classes > 0 THEN num_classes
                                     ELSE args.embed_dims[4]>>

-----------------------------------------------------------------------------
(* The constructor on arbitrary depths (specification SpecInit).           *)

Depths == [1..num_stages -> 0..MaxDepth]

InitInit ==
    /\ \E d \in Depths, rate \in 0..MaxRate :
          args = [preset |-> "VAN", embed_dims |-> <<64, 128, 256, 512>>,
                  mlp_ratios |-> <<4, 4, 4, 4>>, depths |-> d,
                  img_size |-> 224, num_classes |-> 1000, drop_path_rate |-> rate]
    /\ pc = "new"
    /\ NoModel /\ NoCall /\ NoUnit /\ NoTens

NextInit == VAN_init

SpecInit == InitInit /\ [][NextInit]_vars

\* The blocks in network order.
AllBlocks == block[1] \o block[2] \o block[3] \o block[4]

\* C7: with D >= 2 blocks numbered k = 0..D-1 in network order, block k is
\* built with drop-path probability drop_path_rate * k / (D - 1) (here its
\* numerator over D - 1): 0 for the first block, drop_path_rate for the last,
\* non-decreasing, one schedule entry per block; a block of probability 0
\* uses the identity in place of DropPath.
C7_DropPathSchedule ==
    (pc = "idle" /\ Sum(args.depths) >= 2)
        => /\ Len(AllBlocks) = Sum(args.depths)
           /\ \A s \in 1..num_stages : Len(block[s]) = args.depths[s]
           /\ \A k \in 1..Len(AllBlocks) :
                /\ AllBlocks[k].p = args.drop_path_rate * (k - 1)
                /\ AllBlocks[k].drop_path = "Identity" <=> AllBlocks[k].p = 0
           /\ AllBlocks[1].p = 0
           /\ AllBlocks[Len(AllBlocks)].p = args.drop_path_rate * (Sum(args.depths) - 1)
           /\ \A k \in 1..(Len(AllBlocks) - 1) : AllBlocks[k].p <= AllBlocks[k + 1].p

C7_Witness ==
    /\ pc = "idle" /\ args.drop_path_rate = 2 /\ args.depths = <<1, 2, 3, 1>>
    /\ block[3][1].p = 6 /\ block[4][1].drop_path = "DropPath"

-----------------------------------------------------------------------------
(* Components on their own (specification SpecUnit).                       *)

\* Channel counts of the inputs: small ones and the widths of the presets.
UnitChans == (1..MaxUnitC) \cup {32, 64, 128, 160, 256, 320, 512}

Chw(e) == e.c * e.h * e.w

InitUnit ==
    /\ \/ \E layer \in Layers, C \in UnitChans, B \in 1..MaxBatch, n1, n2 \in 1..MaxUnitN :
            \E d \in {C, Chw(AttentionTable(layer))} :
              unit = [kind |-> "Attention", layer |-> layer, d_model |-> d, img_size |-> 0,
                      input |-> <<B, C, n1, n2>>]
       \/ \E layer \in 1..3, C \in UnitChans, B \in 1..MaxBatch, n1, n2, S \in 1..MaxUnitN :
              unit = [kind |-> "OverlapPatchEmbed", layer |-> layer, d_model |-> 0,
                      img_size |-> S, input |-> <<B, C, n1, n2>>]
    /\ out = <<>>
    /\ pc = "unit"
    /\ args = <<>>
    /\ NoModel /\ NoCall /\ NoTens

\* Attention(d_model, layer)(x)
AttentionCall ==
    /\ pc = "unit" /\ unit.kind = "Attention" /\ out = <<>>
    /\ out' = AttentionForward(NewAttention(unit.d_model, unit.layer), Start(unit.input), <<>>)
    /\ UNCHANGED <<args, attrs, num_classes, head, patch_embed, block, norm, training, reset_err,
                   pc, inp, i, j, x, HW, err, ops, convIn, stageOut, unit, tens>>

\* OverlapPatchEmbed(img_size, patch_size=3, stride=2, in_chans, embed_dim, layer)(x);
\* stages 1-3 use neither in_chans nor embed_dim.
PatchEmbedCall ==
    /\ pc = "unit" /\ unit.kind = "OverlapPatchEmbed" /\ out = <<>>
    /\ out' = PatchEmbedForward(NewPatchEmbed(unit.img_size, 3, 2, unit.input[2],
                                              unit.input[2], unit.layer),
                                Start(unit.input), training)
    /\ UNCHANGED <<args, attrs, num_classes, head, patch_embed, block, norm, training, reset_err,
                   pc, inp, i, j, x, HW, err, ops, convIn, stageOut, unit, tens>>

NextUnit == AttentionCall \/ PatchEmbedCall

SpecUnit == InitUnit /\ [][NextUnit]_vars

AttentionMismatch ==
    /\ out # <<>> /\ unit.kind = "Attention"
    /\ unit.input[2] # Chw(AttentionTable(unit.layer))

\* C3 as stated: when the channel count C differs from c*h*w, the first
\* rearrange of the Mixed Attention Unit itself raises.
C3_RearrangeRaises ==
    AttentionMismatch => (~out.ok /\ out.site = <<"rearrange">>)

\* C3 amended: when C differs from c*h*w the unit raises and returns nothing:
\* at the first rearrange when h*w does not divide C, and otherwise at the
\* c -> c convolution, which receives C/(h*w) channels and expects c.
C3_MismatchRaises ==
    AttentionMismatch
        => /\ ~out.ok
           /\ out.site = IF unit.input[2] % (AttentionTable(unit.layer).h
                                                * AttentionTable(unit.layer).w) # 0
                         THEN <<"rearrange">> ELSE <<"proj_1c">>
           /\ out.site = <<"proj_1c">> => out.conv[2] # AttentionTable(unit.layer).c

C3_Witness ==
    /\ out # <<>> /\ unit.kind = "Attention" /\ unit.layer = 0 /\ unit.input[2] = 32
    /\ ~out.ok /\ out.site = <<"proj_1c">> /\ out.conv = <<unit.input[1], 8, 2 * unit.input[3],
                                                            2 * unit.input[4]>>

PatchEmbedCase ==
    /\ out # <<>> /\ unit.kind = "OverlapPatchEmbed"
    /\ unit.input[2] = Chw(PatchEmbedTable(unit.layer))
    /\ unit.input[3] = unit.img_size /\ unit.input[4] = unit.img_size

\* The tensors of the patch embedding of stages 1-3 on (B, c*h*w, N, N).
PatchEmbedShapes(e, B, N) ==
    <<<<B, e.c, N * e.h, N * e.w>>,
      <<B, e.cout, N * e.h, N * e.w>>,
      <<B, e.cout, N * e.h, N * e.w>>,
      <<B, e.cout, N * e.h, N * e.w>>,
      <<B, e.cout * 2 * e.h * 2 * e.w, N \div 2, N \div 2>>>>

\* C6 as stated: the patch embedding of stage 1, 2 or 3 takes (B, c*h*w, N, N),
\* N the constructed size, to (B, c, N*h, N*w), convolves it to
\* (B, cout, N*h, N*w) and returns (B, cout*2h*2w, N/2, N/2).
C6_PatchEmbedHalves ==
    PatchEmbedCase
        => /\ out.ok
           /\ out.trail = PatchEmbedShapes(PatchEmbedTable(unit.layer), unit.input[1],
                                           unit.img_size)

\* C6 amended: this holds when the constructed size N is even; for an odd N
\* the tiled bias has side 2h*floor(N/2) = h*N - h and the bias addition
\* raises.
C6_PatchEmbedHalvesEven ==
    PatchEmbedCase
        => IF unit.img_size % 2 = 0
           THEN /\ out.ok
                /\ out.trail = PatchEmbedShapes(PatchEmbedTable(unit.layer), unit.input[1],
                                                unit.img_size)
           ELSE ~out.ok /\ out.site = <<"pos_embed">>

C6_Witness ==
    /\ PatchEmbedCase /\ unit.layer = 3 /\ unit.img_size = 2
    /\ out.ok /\ out.shape = <<unit.input[1], 512, 1, 1>>

-----------------------------------------------------------------------------
(* The rearrange patterns on tensors with data (specification              *)
(* SpecRearrange).                                                         *)

InitRearrange ==
    /\ \E layer \in Layers, c \in 1..MaxTc, B \in 1..MaxBatch, n1, n2 \in 1..MaxTn :
          LET t == <<B, c * AttentionTable(layer).h * AttentionTable(layer).w, n1, n2>>
          IN  tens = [p1 |-> AttentionTable(layer).h, p2 |-> AttentionTable(layer).w,
                      orig |-> t, shape |-> t,
                      data |-> [k \in 1..(t[1] * t[2] * t[3] * t[4]) |-> k],
                      at |-> "channels"]
    /\ pc = "tensor"
    /\ args = <<>>
    /\ NoModel /\ NoCall /\ NoUnit

\* x_ = rearrange(x, 'b (c p1 p2) n1 n2 -> b c (n1 p1) (n2 p2)', p1=h, p2=w)
RearrangeToSpace ==
    /\ pc = "tensor" /\ tens.at = "channels"
    /\ tens' = [tens EXCEPT !.shape = ToSpace(tens.shape, tens.p1, tens.p2),
                            !.data = ToSpaceData(tens.shape, tens.data, tens.p1, tens.p2),
                            !.at = "space"]
    /\ UNCHANGED <<args, attrs, num_classes, head, patch_embed, block, norm, training, reset_err,
                   pc, inp, i, j, x, HW, err, ops, convIn, stageOut, unit, out>>

\* x_ = rearrange(x_, 'b c (n1 p1) (n2 p2) -> b (c p1 p2) n1 n2', p1=h, p2=w)
RearrangeToChannels ==
    /\ pc = "tensor" /\ tens.at = "space"
    /\ tens' = [tens EXCEPT !.shape = ToChannels(tens.shape, tens.p1, tens.p2),
                            !.data = ToChannelsData(tens.shape, tens.data, tens.p1, tens.p2),
                            !.at = "back"]
    /\ UNCHANGED <<args, attrs, num_classes, head, patch_embed, block, norm, training, reset_err,
                   pc, inp, i, j, x, HW, err, ops, convIn, stageOut, unit, out>>

NextRearrange == RearrangeToSpace \/ RearrangeToChannels

SpecRearrange == InitRearrange /\ [][NextRearrange]_vars

\* C4: for the factors (h, w) of every stage, the channel-to-space rearrange
\* followed by its inverse returns a tensor of the original shape with every
\* element at its original index.
C4_RearrangeRoundTrip ==
    (pc = "tensor" /\ tens.at = "back")
        => /\ tens.shape = tens.orig
           /\ \A k \in 1..Len(tens.data) : tens.data[k] = k

C4_Witness ==
    /\ pc = "tensor" /\ tens.at = "back" /\ tens.p1 = 16
    /\ Len(tens.data) = 2 * 2 * 256 * 2 * 2

====
